---- MODULE Spec2Model ----
(***************************************************************************)
(* A model of the cross-feature services of the admin application:         *)
(*   StateService      (core/services/state.service.ts)                    *)
(*   EventBusService   (core/services/event-bus.service.ts)                *)
(*   UsersService      (features/users/.../users-list.component.ts)        *)
(*   SettingsService   (features/settings/settings.module.ts)              *)
(*   AuthService       (core/services/auth.service.ts) and AppComponent    *)
(*   AnalyticsService, AnalyticsDashboardComponent, ButtonComponent        *)
(* The rxjs subjects are modelled by their observer lists: next(v) calls   *)
(* the observers synchronously, in subscription order; a BehaviorSubject   *)
(* also stores v and hands it to every new observer. delay(ms) is a list   *)
(* of timers: a value is handed on when the clock has reached its time.    *)
(***************************************************************************)
EXTENDS Integers, Sequences, FiniteSets, TLC

VARIABLES
  now,          \* the value Date.now() returns
  cellValue,    \* StateService: the value each BehaviorSubject holds
  cellSubs,     \* StateService: the observers of each cell, in subscription order
  stateLog,     \* per observer: the values its callback received, in order
  setHistory,   \* history: per cell, the values passed to next, in call order
  subAt,        \* history: per observer, its cell and Len(setHistory[cell]) when it
                \* subscribed (from) and unsubscribed (to); -1 when that has not happened
  busSubs,      \* EventBusService: observers of eventSubject, in subscription order
  busType,      \* per bus observer: the eventType given to on()
  busLog,       \* per bus observer: the events its callback received, in order
  emitted,      \* history: the events built by emit, in call order
  stack,        \* the emit calls in progress, innermost first
  regAt,        \* history: per bus observer, Len(emitted) when it subscribed, or -1
  users,        \* UsersService: the value of usersSubject
  published,    \* history: the arrays passed to usersSubject.next
  storage,      \* localStorage: the text under 'app_settings', or Absent
  settings,     \* SettingsService: the value of settingsSubject
  svc,          \* SettingsService: "none", "ok" (constructed) or "threw"
  lastCall,     \* history: the last service call, its arguments, result and pre-state
  auth,         \* AuthService: the values of currentUserSubject and isAuthenticatedSubject
  authStore,    \* localStorage: the items under 'auth_token' and 'current_user'
  timers,       \* the emissions delay() holds back, in the order they were scheduled
  authLog,      \* history: the login and logout responses delivered, in order
  app,          \* AppComponent: "none", or what ngOnInit did: "login" or "skip"
  dash,         \* AnalyticsDashboardComponent: analyticsData, loading, and whether
                \* ngOnInit has run (init)
  button,       \* ButtonComponent: the inputs disabled and loading, and the number
                \* of calls of onClick so far (clicks, history)
  clickedOut,   \* ButtonComponent: the events the clicked output emitted, in order
  feed,         \* per getUsers() subscriber: Len(published) when it subscribed (from),
                \* or -1, and the snapshots its callback received (got)
  heap,         \* the arrays of users built so far, each with its elements as they
                \* are now: the first is MOCK_USERS, the last the value of usersSubject
  comp          \* UsersListComponent: its fields, and whether ngOnInit has run (init)

vars == <<now, cellValue, cellSubs, stateLog, setHistory, subAt,
          busSubs, busType, busLog, emitted, stack, regAt,
          users, published, storage, settings, svc, lastCall,
          auth, authStore, timers, authLog, app, dash, button, clickedOut, feed,
          heap, comp>>

stateVars == <<cellValue, cellSubs, stateLog, setHistory, subAt>>
busVars == <<busSubs, busType, busLog, emitted, stack, regAt>>
usersVars == <<users, published, heap>>
settingsVars == <<storage, settings, svc>>
authVars == <<auth, authStore, authLog, app>>
viewVars == <<dash, button, clickedOut>>
moreVars == <<authVars, timers, feed, viewVars, comp>>

----------------------------------------------------------------------------
(* Bounds *)

MaxSubs == 2      \* observers ever created per service
MaxSets == 3      \* next calls on the StateService cells
MaxTicks == 1     \* clock advances
MaxEmits == 2     \* emit calls on the event bus
MaxUserOps == 2   \* UsersService calls that emit
MaxUpdates == 2   \* updateSettings calls
MaxElapse == 10   \* steps the clock makes while delay() timers run
MaxPending == 2   \* emissions delay() holds back at one time
MaxClicks == 3    \* clicks on the button

Subscribers == 1..MaxSubs

----------------------------------------------------------------------------
(* Values *)

\* Date.now() at start-up; any value above the mock identifiers '1'..'4'.
Clock0 == 10

RECURSIVE ToDigits(_)
\* String(n) for a non-negative integer n: its decimal digits.
ToDigits(n) == IF n < 10 THEN <<n>> ELSE Append(ToDigits(n \div 10), n % 10)

\* null, where a string is expected: no String(n) is empty.
NoId == <<>>

\* Identifiers callers pass: mock ones, an unknown one, and clock-made ones.
IdArgs == {<<1>>, <<2>>, <<9, 9>>} \cup {ToDigits(Clock0 + i) : i \in 0..MaxTicks}

\* Values setSelectedUserId is called with.
SelectedArgs == {NoId, <<1>>}

Range(s) == {s[i] : i \in 1..Len(s)}

----------------------------------------------------------------------------
(* StateService *)

Cells == {"selectedUserId", "loading", "sidebarCollapsed"}

\* The initial values of the three BehaviorSubjects.
CellInit == [selectedUserId |-> NoId, loading |-> FALSE, sidebarCollapsed |-> FALSE]

\* BehaviorSubject.next(v) towards one observer: its callback receives v.
Notify(log, v) == Append(log, v)

\* An observer list without s.
Without(subs, s) == SelectSeq(subs, LAMBDA x : x # s)

\* What a BehaviorSubject hands a new observer on subscribe: its current value.
ReplayNoneMut(v) == <<>>
Replay(v) == <<v>>

\* BehaviorSubject.next(v) on cell c: store v, then call every observer.
CellNext(c, v) ==
  /\ Len(setHistory["selectedUserId"]) + Len(setHistory["loading"])
       + Len(setHistory["sidebarCollapsed"]) < MaxSets
  /\ cellValue' = [cellValue EXCEPT ![c] = v]
  /\ stateLog' = [s \in Subscribers |->
                    IF s \in Range(cellSubs[c]) THEN Notify(stateLog[s], v)
                    ELSE stateLog[s]]
  /\ setHistory' = [setHistory EXCEPT ![c] = Append(@, v)]
  /\ UNCHANGED <<cellSubs, subAt>>

\* getSelectedUserId()
GetSelectedUserId == cellValue["selectedUserId"]

StateInit ==
  /\ cellValue = CellInit
  /\ cellSubs = [c \in Cells |-> <<>>]
  /\ stateLog = [s \in Subscribers |-> <<>>]
  /\ setHistory = [c \in Cells |-> <<>>]
  /\ subAt = [s \in Subscribers |-> [cell |-> "none", from |-> -1, to |-> -1]]

\* An observer that has not subscribed yet.
Fresh(s) == subAt[s].cell = "none"

SetSelectedUserId(userId) == CellNext("selectedUserId", userId)

SetLoading(loading) == CellNext("loading", loading)

ToggleSidebar == CellNext("sidebarCollapsed", ~cellValue["sidebarCollapsed"])

SetSidebarCollapsed(collapsed) == CellNext("sidebarCollapsed", collapsed)

\* cell$.subscribe(callback): the callback receives the current value at once.
SubscribeCell(s, c) ==
  /\ Fresh(s)
  /\ cellSubs' = [cellSubs EXCEPT ![c] = Append(@, s)]
  /\ stateLog' = [stateLog EXCEPT ![s] = Replay(cellValue[c])]
  /\ subAt' = [subAt EXCEPT ![s] = [cell |-> c, from |-> Len(setHistory[c]), to |-> -1]]
  /\ UNCHANGED <<cellValue, setHistory>>

\* subscription.unsubscribe()
UnsubscribeCell(s, c) ==
  /\ s \in Range(cellSubs[c])
  /\ cellSubs' = [cellSubs EXCEPT ![c] = Without(@, s)]
  /\ subAt' = [subAt EXCEPT ![s].to = Len(setHistory[c])]
  /\ UNCHANGED <<cellValue, stateLog, setHistory>>

----------------------------------------------------------------------------
(* EventBusService *)

\* The EventTypes constants.
USER_SELECTED == "USER_SELECTED"
USER_UPDATED == "USER_UPDATED"
USER_DELETED == "USER_DELETED"
SETTINGS_CHANGED == "SETTINGS_CHANGED"
NOTIFICATION == "NOTIFICATION"

\* The types and payloads the features of the bus specification emit.
BusTypes == {USER_SELECTED, NOTIFICATION}
Payloads == {"p1", "p2"}

\* emit: the AppEvent built from the arguments.
AppEvent(type, payload) == [type |-> type, payload |-> payload, timestamp |-> now]

\* on(eventType): the filter of the returned stream.
AnyTypeMut(event, eventType) == TRUE
TypeMatches(event, eventType) == event.type = eventType

\* A call made inside a callback runs to its end before the caller goes on.
Push(frame, stk) == <<frame>> \o stk

\* Subject.next(event): a loop over a copy of the observer list; the frame is the
\* loop's state. seq is the position of the call in emitted.
FrameSkipFirstMut(event, seq) ==
  [event |-> event, seq |-> seq, idx |-> 1,
   snap |-> IF busSubs = <<>> THEN <<>> ELSE Tail(busSubs)]
Frame(event, seq) == [event |-> event, seq |-> seq, snap |-> busSubs, idx |-> 1]

BusInit ==
  /\ busSubs = <<>>
  /\ busType = [s \in Subscribers |-> "none"]
  /\ busLog = [s \in Subscribers |-> <<>>]
  /\ emitted = <<>>
  /\ stack = <<>>
  /\ regAt = [s \in Subscribers |-> -1]

\* No emit call is running: the event loop is free to run the next task.
Idle == stack = <<>>

\* emit(type, payload) from the stack stk: build the event and start the loop.
EmitCall(type, payload, stk) ==
  /\ emitted' = Append(emitted, [type |-> type, payload |-> payload])
  /\ stack' = Push(Frame(AppEvent(type, payload), Len(emitted) + 1), stk)

\* emit(type, payload), called by a feature.
BusEmit(type, payload) ==
  /\ Idle
  /\ Len(emitted) < MaxEmits
  /\ EmitCall(type, payload, stack)
  /\ UNCHANGED <<busSubs, busType, busLog, regAt>>

\* on(eventType).subscribe(callback)
OnSubscribe(s, eventType) ==
  /\ regAt[s] = -1
  /\ busSubs' = Append(busSubs, s)
  /\ busType' = [busType EXCEPT ![s] = eventType]
  /\ regAt' = [regAt EXCEPT ![s] = Len(emitted)]

BusSubscribe(s, eventType) ==
  /\ Idle
  /\ OnSubscribe(s, eventType)
  /\ UNCHANGED <<busLog, emitted, stack>>

\* subscription.unsubscribe()
BusUnsubscribe(s) ==
  /\ Idle
  /\ s \in Range(busSubs)
  /\ busSubs' = Without(busSubs, s)
  /\ UNCHANGED <<busType, busLog, emitted, stack, regAt>>

\* The loop of the innermost emit: the observer it is at, and the frame after it.
Top == stack[1]
AtObserver == Top.idx <= Len(Top.snap)
Target == Top.snap[Top.idx]
Advanced == [Top EXCEPT !.idx = @ + 1]
\* The observer's callback runs: it is still subscribed and its filter passes.
Receives == /\ Target \in Range(busSubs)
            /\ TypeMatches(Top.event, busType[Target])
Received == [busLog EXCEPT ![Target] = Append(@, [event |-> Top.event, seq |-> Top.seq])]

\* The loop passes an observer whose callback does not run.
BusSkip ==
  /\ ~Idle /\ AtObserver /\ ~Receives
  /\ stack' = <<Advanced>> \o Tail(stack)
  /\ UNCHANGED <<busSubs, busType, busLog, emitted, regAt>>

\* The callback runs and only takes the event.
BusDeliver ==
  /\ ~Idle /\ AtObserver /\ Receives
  /\ busLog' = Received
  /\ stack' = <<Advanced>> \o Tail(stack)
  /\ UNCHANGED <<busSubs, busType, emitted, regAt>>

\* The callback runs and calls emit itself.
BusDeliverEmit(type, payload) ==
  /\ ~Idle /\ AtObserver /\ Receives
  /\ Len(emitted) < MaxEmits
  /\ busLog' = Received
  /\ EmitCall(type, payload, <<Advanced>> \o Tail(stack))
  /\ UNCHANGED <<busSubs, busType, regAt>>

\* The callback runs and subscribes another observer.
BusDeliverSubscribe(s, eventType) ==
  /\ ~Idle /\ AtObserver /\ Receives
  /\ busLog' = Received
  /\ OnSubscribe(s, eventType)
  /\ stack' = <<Advanced>> \o Tail(stack)
  /\ UNCHANGED emitted

\* The callback runs and unsubscribes an observer (itself or another).
BusDeliverUnsubscribe(s) ==
  /\ ~Idle /\ AtObserver /\ Receives
  /\ s \in Range(busSubs)
  /\ busLog' = Received
  /\ busSubs' = Without(busSubs, s)
  /\ stack' = <<Advanced>> \o Tail(stack)
  /\ UNCHANGED <<busType, emitted, regAt>>

\* The loop is over: emit returns.
BusReturn ==
  /\ ~Idle /\ ~AtObserver
  /\ stack' = Tail(stack)
  /\ UNCHANGED <<busSubs, busType, busLog, emitted, regAt>>

\* Date.now() moves on.
Tick ==
  /\ Idle
  /\ now < Clock0 + MaxTicks
  /\ now' = now + 1

----------------------------------------------------------------------------
(* UsersService *)

\* undefined
Undefined == [undefined |-> TRUE]

\* new Date(ms) and new Date('yyyy-mm-dd')
DateAt(ms) == [ms |-> ms, iso |-> ""]
DateIso(s) == [ms |-> 0, iso |-> s]

\* encodeURIComponent on the names the model uses: a space becomes %20.
EncodeURIComponent(name) ==
  CASE name = "Ann Lee" -> "Ann%20Lee"
    [] OTHER -> name

MOCK_USERS == <<
  [id |-> <<1>>, name |-> "John Doe", email |-> "john.doe@example.com",
   role |-> "Admin", status |-> "active",
   avatar |-> <<"https://ui-avatars.com/api/?name=", "John+Doe", "&background=4F46E5&color=fff">>,
   joinedDate |-> DateIso("2023-01-15"), lastActive |-> DateAt(Clock0)],
  [id |-> <<2>>, name |-> "Jane Smith", email |-> "jane.smith@example.com",
   role |-> "User", status |-> "active",
   avatar |-> <<"https://ui-avatars.com/api/?name=", "Jane+Smith", "&background=10B981&color=fff">>,
   joinedDate |-> DateIso("2023-03-22"), lastActive |-> DateAt(Clock0 - 1000 * 60 * 30)],
  [id |-> <<3>>, name |-> "Bob Johnson", email |-> "bob.johnson@example.com",
   role |-> "User", status |-> "inactive",
   avatar |-> <<"https://ui-avatars.com/api/?name=", "Bob+Johnson", "&background=EF4444&color=fff">>,
   joinedDate |-> DateIso("2023-05-10"), lastActive |-> DateAt(Clock0 - 1000 * 60 * 60 * 24 * 7)],
  [id |-> <<4>>, name |-> "Alice Williams", email |-> "alice.williams@example.com",
   role |-> "Manager", status |-> "active",
   avatar |-> <<"https://ui-avatars.com/api/?name=", "Alice+Williams", "&background=F59E0B&color=fff">>,
   joinedDate |-> DateIso("2023-02-01"), lastActive |-> DateAt(Clock0 - 1000 * 60 * 5)] >>

\* The form data addUser is called with.
NewUserData == {
  [name |-> "Ann Lee", email |-> "ann@example.com", role |-> "User", status |-> "active"],
  [name |-> "Max", email |-> "max@example.com", role |-> "Viewer", status |-> "pending"] }

\* The changes updateUser is called with.
UserChanges ==
  { [name |-> "Renamed"], [status |-> "inactive", role |-> "Manager"], [id |-> <<2>>] }

\* { ...a, ...b }: the keys of both, b's value where b has the key.
ReplaceMut(a, b) == b
Spread(a, b) ==
  [k \in DOMAIN a \cup DOMAIN b |-> IF k \in DOMAIN b THEN b[k] ELSE a[k]]

\* currentUsers.findIndex(u => u.id === id): 0 stands for -1.
RECURSIVE FindFrom(_, _, _)
FindFrom(list, id, i) ==
  IF i > Len(list) THEN 0
  ELSE IF list[i].id = id THEN i ELSE FindFrom(list, id, i + 1)
FindIndex(list, id) == FindFrom(list, id, 1)

\* currentUsers.filter(u => u.id !== id)
RemoveId(list, id) == SelectSeq(list, LAMBDA u : u.id # id)

\* The identifier addUser gives a new record.
NewId == ToDigits(now)

\* The record addUser builds.
NewUser(userData) ==
  Spread([id |-> NewId],
         Spread(userData,
                [avatar |-> <<"https://ui-avatars.com/api/?name=",
                              EncodeURIComponent(userData.name),
                              "&background=random&color=fff">>,
                 joinedDate |-> DateAt(now), lastActive |-> DateAt(now)]))

Ids(list) == {list[i].id : i \in 1..Len(list)}

\* What a call found before it ran.
Pre == [users |-> users, published |-> Len(published), emitted |-> Len(emitted)]

UsersInit ==
  /\ users = MOCK_USERS
  /\ published = <<>>
  /\ heap = <<MOCK_USERS>>

\* The array is changed where it is (push, an assignment to an element, splice):
\* no array is built, the one usersSubject holds gets the elements.
ChangedInPlaceMut(list) == [heap EXCEPT ![Len(heap)] = list]
\* [...currentUsers, newUser], [...currentUsers] and its one assignment, and
\* currentUsers.filter(...): a new array is built, the others keep their elements.
NewArray(list) == Append(heap, list)

\* usersSubject.next(list), list being the array the operation built
UsersNext(list) ==
  /\ users' = list
  /\ published' = Append(published, list)
  /\ heap' = NewArray(list)

AddUser(userData) ==
  /\ Idle
  /\ Len(emitted) < MaxUserOps
  /\ UsersNext(Append(users, NewUser(userData)))
  /\ EmitCall(USER_UPDATED, NewUser(userData), stack)
  /\ lastCall' = [op |-> "addUser", arg |-> userData, result |-> NewUser(userData),
                  pre |-> Pre]

\* updateUser without its check of the index: the change is spread over nothing
\* and a copy of the list is published.
UpdateUserUncheckedMut(id, userData) ==
  /\ Idle
  /\ Len(emitted) < MaxUserOps
  /\ LET userIndex == FindIndex(users, id)
         updatedUser == IF userIndex = 0 THEN userData
                        ELSE Spread(users[userIndex], userData)
     IN /\ UsersNext(IF userIndex = 0 THEN users
                     ELSE [users EXCEPT ![userIndex] = updatedUser])
        /\ EmitCall(USER_UPDATED, updatedUser, stack)
        /\ lastCall' = [op |-> "updateUser", arg |-> id, data |-> userData,
                        result |-> updatedUser, pre |-> Pre]

UpdateUser(id, userData) ==
  /\ Idle
  /\ Len(emitted) < MaxUserOps
  /\ LET userIndex == FindIndex(users, id)
         updatedUser == Spread(users[userIndex], userData)
     IN IF userIndex = 0
        THEN /\ lastCall' = [op |-> "updateUser", arg |-> id, data |-> userData,
                             result |-> Undefined, pre |-> Pre]
             /\ UNCHANGED <<users, published, heap, emitted, stack>>
        ELSE /\ UsersNext([users EXCEPT ![userIndex] = updatedUser])
             /\ EmitCall(USER_UPDATED, updatedUser, stack)
             /\ lastCall' = [op |-> "updateUser", arg |-> id, data |-> userData,
                             result |-> updatedUser, pre |-> Pre]

\* deleteUser without its emit: the collection is published, no event goes out.
DeleteUserNoEmitMut(id) ==
  /\ Idle
  /\ Len(emitted) < MaxUserOps
  /\ UsersNext(RemoveId(users, id))
  /\ UNCHANGED <<emitted, stack>>
  /\ lastCall' = [op |-> "deleteUser", arg |-> id, result |-> TRUE, pre |-> Pre]

DeleteUser(id) ==
  /\ Idle
  /\ Len(emitted) < MaxUserOps
  /\ UsersNext(RemoveId(users, id))
  /\ EmitCall(USER_DELETED, [id |-> id], stack)
  /\ lastCall' = [op |-> "deleteUser", arg |-> id, result |-> TRUE, pre |-> Pre]

\* selectUser without its first statement: the event goes out, the cell stays.
SelectUserNoSetMut(user) ==
  /\ Idle
  /\ Len(emitted) < MaxUserOps
  /\ EmitCall(USER_SELECTED, user, stack)
  /\ lastCall' = [op |-> "selectUser", arg |-> user.id, result |-> Undefined, pre |-> Pre]
  /\ UNCHANGED stateVars

SelectUser(user) ==
  /\ Idle
  /\ Len(emitted) < MaxUserOps
  /\ SetSelectedUserId(user.id)
  /\ EmitCall(USER_SELECTED, user, stack)
  /\ lastCall' = [op |-> "selectUser", arg |-> user.id, result |-> Undefined, pre |-> Pre]

----------------------------------------------------------------------------
(* SettingsService *)

\* JavaScript values of the settings record: booleans and strings.
JBool(b) == [k |-> "bool", b |-> b, s |-> ""]
JStr(s) == [k |-> "str", b |-> FALSE, s |-> s]

DEFAULT_SETTINGS ==
  [notifications |-> JBool(TRUE), darkMode |-> JBool(FALSE), autoSave |-> JBool(TRUE),
   language |-> JStr("en"), timezone |-> JStr("UTC")]

\* The keys of AppSettings, in the order JSON.stringify writes them.
KeyOrder == <<"notifications", "darkMode", "autoSave", "language", "timezone">>
BoolKeys == {"notifications", "darkMode", "autoSave"}

\* A JSON text is a sequence of tokens.
Punct(c) == [t |-> "punct", v |-> c]
StrTok(s) == [t |-> "str", v |-> s]
LitTok(w) == [t |-> "lit", v |-> w]
WordTok(w) == [t |-> "word", v |-> w]

\* JSON.stringify of one value.
ValueTokenQuotedMut(v) ==
  StrTok(IF v.k = "bool" THEN (IF v.b THEN "true" ELSE "false") ELSE v.s)
ValueToken(v) ==
  IF v.k = "bool" THEN LitTok(IF v.b THEN "true" ELSE "false") ELSE StrTok(v.s)

\* The value a token stands for; only for value tokens.
IsValueToken(tok) == tok.t = "str" \/ (tok.t = "lit" /\ tok.v \in {"true", "false"})
TokenValue(tok) == IF tok.t = "str" THEN JStr(tok.v) ELSE JBool(tok.v = "true")

RECURSIVE Members(_, _, _)
\* The members of obj from key i on, each led by a comma but the first written.
Members(obj, i, first) ==
  IF i > Len(KeyOrder) THEN <<>>
  ELSE IF KeyOrder[i] \notin DOMAIN obj THEN Members(obj, i + 1, first)
  ELSE (IF first THEN <<>> ELSE <<Punct(",")>>)
       \o <<StrTok(KeyOrder[i]), Punct(":"), ValueToken(obj[KeyOrder[i]])>>
       \o Members(obj, i + 1, FALSE)

\* JSON.stringify(settings)
Stringify(obj) == <<Punct("{")>> \o Members(obj, 1, TRUE) \o <<Punct("}")>>

SyntaxError == [ok |-> FALSE, value |-> <<>>]
Parsed(obj) == [ok |-> TRUE, value |-> obj]

RECURSIVE ParseMembers(_, _, _)
\* key : value, then a comma and more members, or the closing brace at the end.
ParseMembers(text, i, acc) ==
  IF i + 3 > Len(text) THEN SyntaxError
  ELSE IF text[i].t # "str" \/ text[i + 1] # Punct(":") \/ ~IsValueToken(text[i + 2])
  THEN SyntaxError
  ELSE LET more == [k \in DOMAIN acc \cup {text[i].v} |->
                      IF k = text[i].v THEN TokenValue(text[i + 2]) ELSE acc[k]]
       IN IF text[i + 3] = Punct("}")
          THEN (IF i + 3 = Len(text) THEN Parsed(more) ELSE SyntaxError)
          ELSE IF text[i + 3] = Punct(",") THEN ParseMembers(text, i + 4, more)
          ELSE SyntaxError

\* JSON.parse(text) of an object text; any other text is a SyntaxError here.
JsonParse(text) ==
  IF Len(text) < 2 \/ text[1] # Punct("{") THEN SyntaxError
  ELSE IF text = <<Punct("{"), Punct("}")>> THEN Parsed(<<>>)
  ELSE ParseMembers(text, 2, <<>>)

\* localStorage.getItem: null, or the text stored.
Absent == [present |-> FALSE, text |-> <<>>]
Item(text) == [present |-> TRUE, text |-> text]

\* stored ? ... : ... ; null and the empty string are falsy.
Truthy(stored) == stored.present /\ stored.text # <<>>

\* loadSettings(): its result, or thrown = TRUE when JSON.parse throws.
LoadSettings(stored) ==
  IF Truthy(stored)
  THEN [thrown |-> ~JsonParse(stored.text).ok, value |-> JsonParse(stored.text).value]
  ELSE [thrown |-> FALSE, value |-> DEFAULT_SETTINGS]

\* saveSettings(settings)
SaveSettings(obj) == Item(Stringify(obj))

\* The partial records updateSettings is called with: each single field, as the
\* settings page sends them, and some of several fields.
SettingsChanges ==
  {[darkMode |-> JBool(TRUE)], [darkMode |-> JBool(FALSE)],
   [notifications |-> JBool(FALSE)], [autoSave |-> JBool(FALSE)],
   [language |-> JStr("es")], [timezone |-> JStr("Europe/London")],
   [language |-> JStr("en"), timezone |-> JStr("UTC")],
   [notifications |-> JBool(TRUE), darkMode |-> JBool(TRUE), autoSave |-> JBool(TRUE),
    language |-> JStr("fr"), timezone |-> JStr("America/New_York")]}

\* What localStorage may hold when the application starts.
StoredAtStart ==
  {Absent, Item(<<>>),
   Item(Stringify(DEFAULT_SETTINGS)),
   Item(Stringify([DEFAULT_SETTINGS EXCEPT !.darkMode = JBool(TRUE),
                                           !.language = JStr("de")])),
   Item(Stringify([darkMode |-> JBool(TRUE)])),
   Item(<<Punct("{"), StrTok("darkMode"), Punct(":")>>),
   Item(<<WordTok("oops")>>)}

\* The service before it is constructed, or when its construction threw.
NoSettings == <<>>

SettingsInit ==
  /\ storage = Absent
  /\ settings = NoSettings
  /\ svc = "none"

\* new SettingsService(eventBus): the field initialiser calls loadSettings().
ConstructSettings ==
  /\ Idle
  /\ LET loaded == LoadSettings(storage)
     IN IF loaded.thrown
        THEN svc' = "threw" /\ settings' = NoSettings
        ELSE svc' = "ok" /\ settings' = loaded.value
  /\ lastCall' = [op |-> "construct", arg |-> storage, result |-> Undefined,
                  pre |-> [settings |-> settings, storage |-> storage, svc |-> svc]]
  /\ UNCHANGED storage

\* getSettings()
GetSettings == settings

UpdateSettings(partial) ==
  /\ Idle
  /\ svc = "ok"
  /\ Len(emitted) < MaxUpdates
  /\ LET updated == Spread(settings, partial)
     IN /\ settings' = updated
        /\ storage' = SaveSettings(updated)
        /\ EmitCall(SETTINGS_CHANGED, updated, stack)
  /\ UNCHANGED svc
  /\ lastCall' = [op |-> "updateSettings", arg |-> partial, result |-> Undefined,
                  pre |-> [settings |-> settings, storage |-> storage, svc |-> svc]]

----------------------------------------------------------------------------
(* Timers: delay(ms) hands each value on when its time has come *)

\* The delays used are multiples of it; the clock moves in these steps.
TimeStep == 100

\* The last instant the clock reaches.
Horizon == Clock0 + MaxElapse * TimeStep

Timer(ms, kind, value) == [due |-> now + ms, kind |-> kind, value |-> value]

\* A delayed emission can be scheduled: there is room, and its time will come.
CanSchedule(ms) == Len(timers) < MaxPending /\ now + ms <= Horizon

\* The timer that runs next: the earliest due, the first scheduled among equals.
Earliest ==
  CHOOSE i \in 1..Len(timers) :
    \A j \in 1..Len(timers) :
      timers[j].due > timers[i].due \/ (timers[j].due = timers[i].due /\ j >= i)

Due == timers # <<>> /\ timers[Earliest].due <= now

Rest == [j \in 1..(Len(timers) - 1) |-> IF j < Earliest THEN timers[j] ELSE timers[j + 1]]

\* Time passes; a timer that is due runs first.
Elapse ==
  /\ Idle
  /\ ~Due
  /\ now + TimeStep <= Horizon
  /\ now' = now + TimeStep

----------------------------------------------------------------------------
(* AuthService *)

MOCK_USER ==
  [id |-> JStr("1"), email |-> JStr("admin@enterprise.com"), name |-> JStr("Admin User"),
   role |-> JStr("admin"),
   avatar |-> JStr("https://ui-avatars.com/api/?name=Admin+User&background=4F46E5&color=fff")]

\* null, where a User is expected.
Null == [null |-> TRUE]

\* The keys of User, in the order JSON.stringify writes them.
UserKeyOrder == <<"id", "email", "name", "role", "avatar">>

RECURSIVE UserMembers(_, _, _)
UserMembers(obj, i, first) ==
  IF i > Len(UserKeyOrder) THEN <<>>
  ELSE IF UserKeyOrder[i] \notin DOMAIN obj THEN UserMembers(obj, i + 1, first)
  ELSE (IF first THEN <<>> ELSE <<Punct(",")>>)
       \o <<StrTok(UserKeyOrder[i]), Punct(":"), ValueToken(obj[UserKeyOrder[i]])>>
       \o UserMembers(obj, i + 1, FALSE)

\* JSON.stringify(response.user)
StringifyUser(obj) == <<Punct("{")>> \o UserMembers(obj, 1, TRUE) \o <<Punct("}")>>

LoginDelay == 800
LogoutDelay == 300

\* 'mock-jwt-token-' + Date.now()
MockToken(t) == <<"mock-jwt-token-", ToDigits(t)>>

\* What login() hands to of(): built when login is called.
AuthResponse == [user |-> MOCK_USER, token |-> MockToken(now)]

Credentials ==
  {[email |-> "admin@enterprise.com", password |-> "demo"],
   [email |-> "nobody@example.com", password |-> ""]}

\* Users setCurrentUser is called with.
UserArgs == {Null, MOCK_USER}

\* !!user: null, false and the empty string are falsy; every object is truthy.
ToBoolean(user) == user # Null /\ user # JBool(FALSE) /\ user # JStr("")

\* setCurrentUser(user): currentUserSubject gets user, isAuthenticatedSubject gets !!user.
Signed(user) == [currentUser |-> user, isAuthenticated |-> ToBoolean(user)]

NoAuth == [currentUser |-> Null, isAuthenticated |-> FALSE]
EmptyStore == [auth_token |-> Absent, current_user |-> Absent]

\* What localStorage may hold when the application starts.
AuthStoredAtStart ==
  {EmptyStore,
   [auth_token |-> Item(MockToken(Clock0 - 1)), current_user |-> Item(StringifyUser(MOCK_USER))],
   [auth_token |-> Item(MockToken(Clock0 - 1)), current_user |-> Item(<<WordTok("oops")>>)],
   [auth_token |-> Item(MockToken(Clock0 - 1)), current_user |-> Item(<<LitTok("false")>>)],
   [auth_token |-> Absent, current_user |-> Item(StringifyUser(MOCK_USER))]}

\* JSON.parse(storedUser): a text that is one literal or one string parses to that
\* value; anything else is parsed as an object.
JsonParseValue(text) ==
  IF Len(text) = 1 /\ text[1] = LitTok("null") THEN Parsed(Null)
  ELSE IF Len(text) = 1 /\ text[1] \in {LitTok("true"), LitTok("false")}
       THEN Parsed(JBool(text[1] = LitTok("true")))
  ELSE IF Len(text) = 1 /\ text[1].t = "str" THEN Parsed(JStr(text[1].v))
  ELSE JsonParse(text)

\* loadStoredUser(): the state the constructor leaves. The logout() of the catch
\* branch is never subscribed, so its tap never runs.
LoadStoredUser(store) ==
  IF Truthy(store.current_user) /\ Truthy(store.auth_token)
  THEN IF JsonParseValue(store.current_user.text).ok
       THEN Signed(JsonParseValue(store.current_user.text).value)
       ELSE NoAuth
  ELSE NoAuth

AuthPre == [auth |-> auth, store |-> authStore, timers |-> timers]

AuthInit ==
  /\ authStore = EmptyStore
  /\ auth = LoadStoredUser(EmptyStore)
  /\ authLog = <<>>
  /\ app = "none"

\* login(credentials).subscribe(): the response waits in delay(800).
Subscribed(credentials) ==
  /\ CanSchedule(LoginDelay)
  /\ timers' = Append(timers, Timer(LoginDelay, "login", AuthResponse))

Login(credentials) ==
  /\ Idle
  /\ Subscribed(credentials)
  /\ lastCall' = [op |-> "login", arg |-> credentials, result |-> AuthResponse, pre |-> AuthPre]
  /\ UNCHANGED <<auth, authStore, authLog, app>>

\* The tap of login, then the subscriber's callback.
LoginKeepsStateMut(response) ==
  /\ auth' = auth
  /\ authStore' = [auth_token |-> Item(response.token),
                   current_user |-> Item(StringifyUser(response.user))]
LoginTap(response) ==
  /\ auth' = Signed(response.user)
  /\ authStore' = [auth_token |-> Item(response.token),
                   current_user |-> Item(StringifyUser(response.user))]

LoginDelivered ==
  /\ Idle
  /\ Due
  /\ timers[Earliest].kind = "login"
  /\ LoginTap(timers[Earliest].value)
  /\ timers' = Rest
  /\ authLog' = Append(authLog, "login")
  /\ lastCall' = [op |-> "loginDelivered", arg |-> Undefined,
                  result |-> timers[Earliest].value, pre |-> AuthPre]
  /\ UNCHANGED app

\* logout().subscribe(): the void value waits in delay(300).
Logout ==
  /\ Idle
  /\ CanSchedule(LogoutDelay)
  /\ timers' = Append(timers, Timer(LogoutDelay, "logout", Undefined))
  /\ lastCall' = [op |-> "logout", arg |-> Undefined, result |-> Undefined, pre |-> AuthPre]
  /\ UNCHANGED <<auth, authStore, authLog, app>>

\* The tap of logout, then the subscriber's callback.
LogoutKeepsStoreMut ==
  /\ auth' = [currentUser |-> Null, isAuthenticated |-> FALSE]
  /\ authStore' = [authStore EXCEPT !.auth_token = Absent]
LogoutTap ==
  /\ auth' = [currentUser |-> Null, isAuthenticated |-> FALSE]
  /\ authStore' = [auth_token |-> Absent, current_user |-> Absent]

LogoutDelivered ==
  /\ Idle
  /\ Due
  /\ timers[Earliest].kind = "logout"
  /\ LogoutTap
  /\ timers' = Rest
  /\ authLog' = Append(authLog, "logout")
  /\ lastCall' = [op |-> "logoutDelivered", arg |-> Undefined, result |-> Undefined,
                  pre |-> AuthPre]
  /\ UNCHANGED app

SetCurrentUser(user) ==
  /\ Idle
  /\ auth' = Signed(user)
  /\ lastCall' = [op |-> "setCurrentUser", arg |-> user, result |-> Undefined, pre |-> AuthPre]
  /\ UNCHANGED <<authStore, authLog, app, timers>>

\* AppComponent.ngOnInit(): auto-login unless authenticated already.
NgOnInitAlwaysMut ==
  /\ Idle
  /\ app = "none"
  /\ Subscribed([email |-> "admin@enterprise.com", password |-> "demo"])
  /\ app' = "login"
  /\ lastCall' = [op |-> "ngOnInit", arg |-> Undefined, result |-> Undefined, pre |-> AuthPre]
  /\ UNCHANGED <<auth, authStore, authLog>>
NgOnInit ==
  /\ Idle
  /\ app = "none"
  /\ IF ~auth.isAuthenticated
     THEN /\ Subscribed([email |-> "admin@enterprise.com", password |-> "demo"])
          /\ app' = "login"
     ELSE /\ app' = "skip"
          /\ UNCHANGED timers
  /\ lastCall' = [op |-> "ngOnInit", arg |-> Undefined, result |-> Undefined, pre |-> AuthPre]
  /\ UNCHANGED <<auth, authStore, authLog>>

----------------------------------------------------------------------------
(* UsersService: getUsers() and the streams the mutations return *)

UsersDelay == 500
ResultDelay == 500
NotFoundDelay == 300

ListInit == feed = [s \in Subscribers |-> [from |-> -1, got |-> <<>>]]

\* The subscriber a new getUsers() subscription gets: the lowest number not used yet.
NextListSub(s) == feed[s].from = -1 /\ \A r \in Subscribers : r < s => feed[r].from # -1

\* usersSubject hands snapshot to the delay(500) of every subscriber from s on,
\* in subscription order.
RECURSIVE Delayed(_, _)
Delayed(s, snapshot) ==
  IF s > MaxSubs THEN <<>>
  ELSE (IF feed[s].from # -1
        THEN <<Timer(UsersDelay, "users", [sub |-> s, list |-> snapshot])>>
        ELSE <<>>) \o Delayed(s + 1, snapshot)

\* getUsers().subscribe(callback): the BehaviorSubject replays its value into delay.
GetUsersNoReplayMut(s) ==
  /\ Idle
  /\ NextListSub(s)
  /\ now + UsersDelay <= Horizon
  /\ feed' = [feed EXCEPT ![s].from = Len(published)]
  /\ timers' = timers
GetUsers(s) ==
  /\ Idle
  /\ NextListSub(s)
  /\ now + UsersDelay <= Horizon
  /\ feed' = [feed EXCEPT ![s].from = Len(published)]
  /\ timers' = Append(timers, Timer(UsersDelay, "users", [sub |-> s, list |-> users]))

\* delay(500) hands a snapshot to the subscriber's callback.
UsersDelivered ==
  /\ Idle
  /\ Due
  /\ timers[Earliest].kind = "users"
  /\ feed' = [feed EXCEPT ![timers[Earliest].value.sub].got =
                            Append(@, timers[Earliest].value.list)]
  /\ timers' = Rest

\* What a mutation leaves in the delays: the snapshot, when it published one, for
\* every getUsers() subscriber, and its own result when the caller subscribes
\* to the stream it returns.
Republished == IF published' # published THEN Delayed(1, users') ELSE <<>>
Returned(subscribed) ==
  IF subscribed
  THEN <<Timer(IF published' # published THEN ResultDelay ELSE NotFoundDelay,
               "result", [op |-> lastCall'.op])>>
  ELSE <<>>

\* The stream a mutation returned hands its value on; the callback takes it.
ResultDelivered ==
  /\ Idle
  /\ Due
  /\ timers[Earliest].kind = "result"
  /\ timers' = Rest

----------------------------------------------------------------------------
(* AnalyticsService and AnalyticsDashboardComponent *)

\* A string is the sequence of its characters, a number its sign, its whole part
\* and the digits of its fraction (at most three, so that none is rounded away).
Num(neg, whole, frac) == [neg |-> neg, whole |-> whole, frac |-> frac]
Whole(n) == Num(FALSE, n, <<>>)

DigitChar(d) == <<"0", "1", "2", "3", "4", "5", "6", "7", "8", "9">>[d + 1]
DigitChars(ds) == [i \in 1..Len(ds) |-> DigitChar(ds[i])]
SignChars(value) == IF value.neg THEN <<"-">> ELSE <<>>
FractionChars(value) == IF value.frac = <<>> THEN <<>> ELSE <<".">> \o DigitChars(value.frac)

\* The digits in groups of three from the right, with commas between the groups.
RECURSIVE Grouped(_)
Grouped(cs) ==
  IF Len(cs) <= 3 THEN cs
  ELSE Grouped(SubSeq(cs, 1, Len(cs) - 3)) \o <<",">> \o SubSeq(cs, Len(cs) - 2, Len(cs))

\* value.toLocaleString(), in the en-US locale of the tests
ToLocaleString(value) ==
  SignChars(value) \o Grouped(DigitChars(ToDigits(value.whole))) \o FractionChars(value)

\* `${value}`
TemplateString(value) ==
  SignChars(value) \o DigitChars(ToDigits(value.whole)) \o FractionChars(value)

\* text.includes(part)
Includes(text, part) ==
  \E i \in 1..(Len(text) - Len(part) + 1) : SubSeq(text, i, i + Len(part) - 1) = part

Revenue == <<"R", "e", "v", "e", "n", "u", "e">>
Rate == <<"R", "a", "t", "e">>

\* formatValue with its two tests in the other order.
FormatValueRateFirstMut(value, metricLabel) ==
  IF Includes(metricLabel, Rate) THEN TemplateString(value) \o <<"%">>
  ELSE IF Includes(metricLabel, Revenue) THEN <<"$">> \o ToLocaleString(value)
  ELSE ToLocaleString(value)
FormatValue(value, metricLabel) ==
  IF Includes(metricLabel, Revenue) THEN <<"$">> \o ToLocaleString(value)
  ELSE IF Includes(metricLabel, Rate) THEN TemplateString(value) \o <<"%">>
  ELSE ToLocaleString(value)

\* getTrendColor with the colours of up and down exchanged.
GetTrendColorSwappedMut(trend) ==
  CASE trend = "up" -> "#EF4444"
    [] trend = "down" -> "#10B981"
    [] OTHER -> "#6B7280"
GetTrendColor(trend) ==
  CASE trend = "up" -> "#10B981"
    [] trend = "down" -> "#EF4444"
    [] OTHER -> "#6B7280"

\* The labels formatValue is called with: those of the mock metrics and others.
Labels == {
  <<"R", "e", "v", "e", "n", "u", "e">>,
  <<"T", "o", "t", "a", "l", " ", "R", "e", "v", "e", "n", "u", "e">>,
  <<"C", "o", "n", "v", "e", "r", "s", "i", "o", "n", " ", "R", "a", "t", "e">>,
  <<"T", "o", "t", "a", "l", " ", "U", "s", "e", "r", "s">>,
  <<"A", "c", "t", "i", "v", "e", " ", "S", "e", "s", "s", "i", "o", "n", "s">>,
  <<"R", "e", "v", "e", "n", "u", "e", " ", "G", "r", "o", "w", "t", "h", " ", "R", "a", "t", "e">>,
  <<"R", "a", "t", "e", " ", "o", "f", " ", "R", "e", "t", "u", "r", "n">>,
  <<"r", "e", "v", "e", "n", "u", "e", " ", "r", "a", "t", "e">>,
  <<>> }

\* The values formatValue is called with.
Values == {
  Num(FALSE, 0, <<>>),
  Num(FALSE, 50, <<>>),
  Num(FALSE, 999, <<>>),
  Num(FALSE, 1000, <<>>),
  Num(FALSE, 89500, <<>>),
  Num(FALSE, 1234567, <<>>),
  Num(TRUE, 1000, <<>>),
  Num(FALSE, 3, <<2, 4>>),
  Num(FALSE, 12450, <<5>>) }

\* The trends getTrendColor is called with.
Trends == {"up", "down", "stable", "UP", ""}

MOCK_METRICS == <<
  [id |-> "1", label |-> <<"T", "o", "t", "a", "l", " ", "U", "s", "e", "r", "s">>, value |-> Whole(12450),
   change |-> Num(FALSE, 12, <<5>>), trend |-> "up", icon |-> "users"],
  [id |-> "2", label |-> <<"R", "e", "v", "e", "n", "u", "e">>, value |-> Whole(89500),
   change |-> Num(FALSE, 8, <<2>>), trend |-> "up", icon |-> "dollar"],
  [id |-> "3", label |-> <<"A", "c", "t", "i", "v", "e", " ", "S", "e", "s", "s", "i", "o", "n", "s">>, value |-> Whole(2453),
   change |-> Num(TRUE, 3, <<1>>), trend |-> "down", icon |-> "activity"],
  [id |-> "4", label |-> <<"C", "o", "n", "v", "e", "r", "s", "i", "o", "n", " ", "R", "a", "t", "e">>, value |-> Num(FALSE, 3, <<2, 4>>),
   change |-> Num(FALSE, 1, <<8>>), trend |-> "up", icon |-> "trending"] >>

MOCK_CHART_DATA == <<
  [label |-> "Jan", value |-> 4000], [label |-> "Feb", value |-> 3000],
  [label |-> "Mar", value |-> 5000], [label |-> "Apr", value |-> 4500],
  [label |-> "May", value |-> 6000], [label |-> "Jun", value |-> 5500],
  [label |-> "Jul", value |-> 7000] >>

\* The timestamps are taken when the module is loaded.
MOCK_ACTIVITY == <<
  [id |-> "1", type |-> "user_registration", description |-> "New user registered",
   timestamp |-> DateAt(Clock0 - 1000 * 60 * 5), user |-> "john.doe@example.com"],
  [id |-> "2", type |-> "purchase", description |-> "Purchase completed",
   timestamp |-> DateAt(Clock0 - 1000 * 60 * 15), user |-> "jane.smith@example.com"],
  [id |-> "3", type |-> "system", description |-> "System backup completed",
   timestamp |-> DateAt(Clock0 - 1000 * 60 * 30)] >>

AnalyticsDelay == 600

\* What getAnalyticsData() hands to of().
AnalyticsData ==
  [metrics |-> MOCK_METRICS, chartData |-> MOCK_CHART_DATA, recentActivity |-> MOCK_ACTIVITY]

DashInit == dash = [init |-> FALSE, analyticsData |-> Null, loading |-> TRUE]

\* loadAnalytics(): the data waits in delay(600).
LoadAnalytics ==
  /\ CanSchedule(AnalyticsDelay)
  /\ dash' = [dash EXCEPT !.init = TRUE, !.loading = TRUE]
  /\ timers' = Append(timers, Timer(AnalyticsDelay, "analytics", AnalyticsData))

\* ngOnInit(), which Angular calls once.
DashNgOnInit ==
  /\ Idle
  /\ ~dash.init
  /\ LoadAnalytics
  /\ lastCall' = [op |-> "loadAnalytics", arg |-> Undefined, result |-> Undefined,
                  pre |-> dash]

\* The callback of loadAnalytics with its first statement left out.
ShowNoDataMut(data) == [dash EXCEPT !.loading = FALSE]
Show(data) == [dash EXCEPT !.analyticsData = data, !.loading = FALSE]

AnalyticsDelivered ==
  /\ Idle
  /\ Due
  /\ timers[Earliest].kind = "analytics"
  /\ dash' = Show(timers[Earliest].value)
  /\ timers' = Rest
  /\ lastCall' = [op |-> "analyticsDelivered", arg |-> Undefined,
                  result |-> timers[Earliest].value, pre |-> dash]

\* The template calls formatValue and getTrendColor.
CallFormatValue(value, metricLabel) ==
  /\ Idle
  /\ lastCall' = [op |-> "formatValue", arg |-> [value |-> value, label |-> metricLabel],
                  result |-> FormatValue(value, metricLabel), pre |-> dash]

CallGetTrendColor(trend) ==
  /\ Idle
  /\ lastCall' = [op |-> "getTrendColor", arg |-> trend, result |-> GetTrendColor(trend),
                  pre |-> dash]

----------------------------------------------------------------------------
(* ButtonComponent *)

ButtonInit ==
  /\ button = [disabled |-> FALSE, loading |-> FALSE, clicks |-> 0]
  /\ clickedOut = <<>>

\* The parent binds the inputs.
SetInputs(disabled, loading) ==
  /\ button' = [button EXCEPT !.disabled = disabled, !.loading = loading]
  /\ UNCHANGED clickedOut

\* The MouseEvent of a click: the clicks are numbered.
ClickEvent == [click |-> button.clicks + 1]

\* onClick with the test of loading left out.
OnClickWhileLoadingMut(event) ==
  /\ event.click <= MaxClicks
  /\ clickedOut' = IF ~button.disabled THEN Append(clickedOut, event) ELSE clickedOut
  /\ lastCall' = [op |-> "onClick", arg |-> event, result |-> Undefined,
                  pre |-> [button |-> button, clickedOut |-> clickedOut]]
  /\ button' = [button EXCEPT !.clicks = @ + 1]
OnClick(event) ==
  /\ event.click <= MaxClicks
  /\ clickedOut' = IF ~button.disabled /\ ~button.loading
                   THEN Append(clickedOut, event) ELSE clickedOut
  /\ lastCall' = [op |-> "onClick", arg |-> event, result |-> Undefined,
                  pre |-> [button |-> button, clickedOut |-> clickedOut]]
  /\ button' = [button EXCEPT !.clicks = @ + 1]

----------------------------------------------------------------------------
(* UsersListComponent *)

\* resetForm(): the value of newUser
EmptyForm == [name |-> "", email |-> "", role |-> "User", status |-> "active"]

CompInit ==
  comp = [init |-> FALSE, users |-> <<>>, loading |-> TRUE, selectedUser |-> Null,
          showAddModal |-> FALSE, showEditModal |-> FALSE, newUser |-> EmptyForm,
          editingUser |-> Null]

\* The getUsers() subscriptions made so far; none is ever unsubscribed.
Live == {s \in Subscribers : feed[s].from # -1}

\* The streams of mutations the component is subscribed to.
Results == {i \in 1..Len(timers) : timers[i].kind = "result"}

\* A loadUsers() can still be made for every result under way and for one more.
RoomToLoad == Cardinality(Live) + Cardinality(Results) < MaxSubs

\* loadUsers() of the component c, pending being the emissions held back: loading
\* is set, and getUsers() is subscribed to once more.
LoadUsers(c, pending) ==
  \E s \in Subscribers :
    /\ NextListSub(s)
    /\ feed' = [feed EXCEPT ![s].from = Len(published)]
    /\ timers' = Append(pending, Timer(UsersDelay, "users", [sub |-> s, list |-> users]))
    /\ comp' = [c EXCEPT !.loading = TRUE]

CompNgOnInit ==
  /\ Idle
  /\ ~comp.init
  /\ LoadUsers([comp EXCEPT !.init = TRUE], timers)

\* The callback of loadUsers() takes a snapshot.
CompUsersDelivered ==
  /\ UsersDelivered
  /\ comp' = [comp EXCEPT !.users = timers[Earliest].value.list, !.loading = FALSE]

\* onUserClick(user), user being a row of the list
OnUserClick(user) ==
  /\ SelectUser(user)
  /\ comp' = [comp EXCEPT !.selectedUser = user]

OnAddUser ==
  /\ Idle
  /\ comp' = [comp EXCEPT !.showAddModal = TRUE, !.newUser = EmptyForm]

OnCloseAddModal ==
  /\ Idle
  /\ comp' = [comp EXCEPT !.showAddModal = FALSE, !.newUser = EmptyForm]

\* The form of the add modal writes the fields of newUser.
EnterNewUser(form) ==
  /\ Idle
  /\ comp.showAddModal
  /\ comp' = [comp EXCEPT !.newUser = form]

\* What a mutation the component subscribed to leaves in the delays: the snapshots
\* for its getUsers() subscriptions, then the result.
Submitted(op, id) ==
  timers' = timers \o Republished
              \o <<Timer(IF published' # published THEN ResultDelay ELSE NotFoundDelay,
                         "result", [op |-> op, id |-> id])>>

OnSubmitNewUser ==
  /\ Idle
  /\ IF comp.newUser.name # "" /\ comp.newUser.email # ""
     THEN /\ RoomToLoad
          /\ AddUser(comp.newUser)
          /\ Submitted("addUser", NoId)
          /\ UNCHANGED <<comp, feed>>
     ELSE UNCHANGED <<usersVars, emitted, stack, lastCall, timers, comp, feed>>

\* onEditUser(user, event), user being a row of the list
OnEditUser(user) ==
  /\ Idle
  /\ comp' = [comp EXCEPT !.editingUser = user, !.showEditModal = TRUE]

OnCloseEditModal ==
  /\ Idle
  /\ comp' = [comp EXCEPT !.showEditModal = FALSE, !.editingUser = Null]

\* The form of the edit modal writes fields of editingUser.
EnterEdit(change) ==
  /\ Idle
  /\ comp.editingUser # Null
  /\ comp' = [comp EXCEPT !.editingUser = Spread(comp.editingUser, change)]

OnSubmitEditUser ==
  /\ Idle
  /\ IF comp.editingUser # Null
     THEN /\ RoomToLoad
          /\ UpdateUser(comp.editingUser.id, comp.editingUser)
          /\ Submitted("updateUser", comp.editingUser.id)
          /\ UNCHANGED <<comp, feed>>
     ELSE UNCHANGED <<usersVars, emitted, stack, lastCall, timers, comp, feed>>

\* onDeleteUser(user, event), user being a row of the list; confirmed is the
\* answer to confirm().
OnDeleteUser(user, confirmed) ==
  /\ Idle
  /\ IF confirmed
     THEN /\ RoomToLoad
          /\ DeleteUser(user.id)
          /\ Submitted("deleteUser", user.id)
          /\ UNCHANGED <<comp, feed>>
     ELSE UNCHANGED <<usersVars, emitted, stack, lastCall, timers, comp, feed>>

\* The component as the callback of the mutation op finds and leaves it, before
\* its loadUsers().
Answered(op, id) ==
  IF op = "addUser" THEN [comp EXCEPT !.showAddModal = FALSE, !.newUser = EmptyForm]
  ELSE IF op = "updateUser" THEN [comp EXCEPT !.showEditModal = FALSE, !.editingUser = Null]
  ELSE IF comp.selectedUser # Null /\ comp.selectedUser.id = id
       THEN [comp EXCEPT !.selectedUser = Null]
  ELSE comp

\* The stream a mutation returned hands its value to the component's callback.
CompResultDelivered ==
  /\ Idle
  /\ Due
  /\ timers[Earliest].kind = "result"
  /\ LoadUsers(Answered(timers[Earliest].value.op, timers[Earliest].value.id), Rest)

----------------------------------------------------------------------------
(* Specifications *)

NoCall == [op |-> "none"]

\* The observer a new subscription gets: the lowest number not used yet.
NextStateSub(s) == \A r \in Subscribers : r < s => ~Fresh(r)
NextBusSub(s) == \A r \in Subscribers : r < s => regAt[r] # -1

Init ==
  /\ now = Clock0
  /\ StateInit /\ BusInit /\ UsersInit /\ SettingsInit
  /\ AuthInit /\ ListInit /\ DashInit /\ ButtonInit /\ CompInit
  /\ timers = <<>>
  /\ lastCall = NoCall

(* StateService alone: features set the cells and observe them. *)
StateOthers == UNCHANGED <<now, busVars, usersVars, settingsVars, lastCall, moreVars>>

StateNext ==
  \/ \E v \in SelectedArgs : SetSelectedUserId(v) /\ StateOthers
  \/ \E b \in BOOLEAN : SetLoading(b) /\ StateOthers
  \/ ToggleSidebar /\ StateOthers
  \/ \E b \in BOOLEAN : SetSidebarCollapsed(b) /\ StateOthers
  \/ \E s \in Subscribers, c \in Cells :
       NextStateSub(s) /\ SubscribeCell(s, c) /\ StateOthers
  \/ \E s \in Subscribers, c \in Cells : UnsubscribeCell(s, c) /\ StateOthers

SpecState == Init /\ [][StateNext]_vars

(* EventBusService alone: features emit and listen; a callback may itself emit, *)
(* subscribe or unsubscribe. The clock stands still: nothing here reads a       *)
(* timestamp.                                                                   *)
BusOthers == UNCHANGED <<stateVars, usersVars, settingsVars, lastCall, moreVars>>

BusNext ==
  \/ \E type \in BusTypes, p \in Payloads : BusEmit(type, p) /\ UNCHANGED now /\ BusOthers
  \/ \E s \in Subscribers, type \in BusTypes :
       NextBusSub(s) /\ BusSubscribe(s, type) /\ UNCHANGED now /\ BusOthers
  \/ \E s \in Subscribers : BusUnsubscribe(s) /\ UNCHANGED now /\ BusOthers
  \/ BusSkip /\ UNCHANGED now /\ BusOthers
  \/ BusDeliver /\ UNCHANGED now /\ BusOthers
  \/ \E type \in BusTypes, p \in Payloads :
       BusDeliverEmit(type, p) /\ UNCHANGED now /\ BusOthers
  \/ \E s \in Subscribers, type \in BusTypes :
       NextBusSub(s) /\ BusDeliverSubscribe(s, type) /\ UNCHANGED now /\ BusOthers
  \/ \E s \in Subscribers : BusDeliverUnsubscribe(s) /\ UNCHANGED now /\ BusOthers
  \/ BusReturn /\ UNCHANGED now /\ BusOthers

SpecBus == Init /\ [][BusNext]_vars


(* UsersService, with the StateService cell it sets and the bus it emits on; *)
(* nobody listens on the bus.                                                *)
UsersOthers == UNCHANGED <<busSubs, busType, busLog, regAt, settingsVars, moreVars>>

UsersSpecNext ==
  \/ \E d \in NewUserData : AddUser(d) /\ UNCHANGED <<now, stateVars>> /\ UsersOthers
  \/ \E id \in IdArgs, ch \in UserChanges :
       UpdateUser(id, ch) /\ UNCHANGED <<now, stateVars>> /\ UsersOthers
  \/ \E id \in IdArgs : DeleteUser(id) /\ UNCHANGED <<now, stateVars>> /\ UsersOthers
  \/ \E i \in 1..Len(users) :
       SelectUser(users[i]) /\ UNCHANGED <<now, usersVars>> /\ UsersOthers
  \/ BusReturn /\ UNCHANGED <<now, stateVars, usersVars, lastCall>> /\ UsersOthers
  \/ Tick /\ UNCHANGED <<stateVars, usersVars, emitted, stack, lastCall>> /\ UsersOthers

SpecUsers == Init /\ [][UsersSpecNext]_vars

(* SettingsService over a localStorage that holds anything at start; the page  *)
(* may be reloaded, which constructs the service again.                        *)
SettingsStart ==
  /\ now = Clock0
  /\ StateInit /\ BusInit /\ UsersInit
  /\ storage \in StoredAtStart
  /\ settings = NoSettings
  /\ svc = "none"
  /\ AuthInit /\ ListInit /\ DashInit /\ ButtonInit /\ CompInit
  /\ timers = <<>>
  /\ lastCall = NoCall

SettingsOthers == UNCHANGED <<now, stateVars, usersVars, busSubs, busType, busLog, regAt, moreVars>>

SettingsNext ==
  \/ ConstructSettings /\ UNCHANGED <<emitted, stack>> /\ SettingsOthers
  \/ \E p \in SettingsChanges : UpdateSettings(p) /\ SettingsOthers
  \/ BusReturn /\ UNCHANGED <<settingsVars, lastCall>> /\ SettingsOthers

SpecSettings == SettingsStart /\ [][SettingsNext]_vars

(* User selection with listeners: selectUser over the StateService cell and  *)
(* the bus, features listening on the bus and observing selectedUserId$; a   *)
(* bus callback may join selectedUserId$ while it runs. The clock stands     *)
(* still.                                                                    *)
AppTypes == {USER_SELECTED, USER_UPDATED}

\* The listeners and observers created so far; MaxSubs bounds them together.
Listeners == {s \in Subscribers : regAt[s] # -1}
Observers == {s \in Subscribers : ~Fresh(s)}
RoomForOne == Cardinality(Listeners) + Cardinality(Observers) < MaxSubs

\* A bus callback that subscribes to selectedUserId$ when it receives an event.
BusDeliverJoin(s) ==
  /\ BusDeliver
  /\ SubscribeCell(s, "selectedUserId")

AppOthers == UNCHANGED <<now, usersVars, settingsVars, moreVars>>

AppNext ==
  \/ \E i \in 1..Len(users) :
       /\ SelectUser(users[i])
       /\ UNCHANGED <<busSubs, busType, busLog, regAt>> /\ AppOthers
  \/ \E s \in Subscribers, type \in AppTypes :
       /\ RoomForOne /\ NextBusSub(s) /\ BusSubscribe(s, type)
       /\ UNCHANGED <<stateVars, lastCall>> /\ AppOthers
  \/ \E s \in Subscribers :
       /\ RoomForOne /\ NextStateSub(s) /\ Idle /\ SubscribeCell(s, "selectedUserId")
       /\ UNCHANGED <<busVars, lastCall>> /\ AppOthers
  \/ BusSkip /\ UNCHANGED <<stateVars, lastCall>> /\ AppOthers
  \/ BusDeliver /\ UNCHANGED <<stateVars, lastCall>> /\ AppOthers
  \/ \E s \in Subscribers :
       /\ RoomForOne /\ NextStateSub(s) /\ BusDeliverJoin(s)
       /\ UNCHANGED lastCall /\ AppOthers
  \/ BusReturn /\ UNCHANGED <<stateVars, lastCall>> /\ AppOthers

SpecApp == Init /\ [][AppNext]_vars


(* AuthService and the application shell: logins and logouts overlap in time. *)
AuthStart ==
  /\ now = Clock0
  /\ StateInit /\ BusInit /\ UsersInit /\ SettingsInit
  /\ authStore \in AuthStoredAtStart
  /\ auth = LoadStoredUser(authStore)
  /\ authLog = <<>>
  /\ app = "none"
  /\ ListInit /\ DashInit /\ ButtonInit /\ CompInit
  /\ timers = <<>>
  /\ lastCall = NoCall

AuthOthers ==
  UNCHANGED <<stateVars, busVars, usersVars, settingsVars, feed, viewVars, comp>>

AuthTimers ==
  \/ Elapse /\ UNCHANGED <<lastCall, authVars, timers>>
  \/ LoginDelivered /\ UNCHANGED now
  \/ LogoutDelivered /\ UNCHANGED now

AuthNext ==
  /\ AuthOthers
  /\ \/ \E credentials \in Credentials : Login(credentials) /\ UNCHANGED now
     \/ Logout /\ UNCHANGED now
     \/ \E user \in UserArgs : SetCurrentUser(user) /\ UNCHANGED now
     \/ NgOnInit /\ UNCHANGED now
     \/ AuthTimers

\* The event loop runs every timer that is due, and time does not stand still.
SpecAuth == AuthStart /\ [][AuthNext]_vars /\ WF_vars(AuthOthers /\ AuthTimers)


(* UsersService with subscribers of getUsers(): snapshots travel through delay *)
(* while further mutations are made. Every delay here is the same, so the     *)
(* order of the deliveries is the order of the calls; a call made between two *)
(* timer instants is made at the earlier one.                                 *)
ListIds == {<<1>>, <<9, 9>>}
ListData == {d \in NewUserData : d.role = "User"}
ListChanges == {ch \in UserChanges : DOMAIN ch = {"name"}}

ListOthers ==
  UNCHANGED <<stateVars, busSubs, busType, busLog, regAt, settingsVars, authVars, viewVars,
              comp>>

\* Time passes until the next timer is due.
Await ==
  /\ Idle
  /\ timers # <<>>
  /\ ~Due
  /\ now' = timers[Earliest].due

\* A mutation, with the snapshots it leaves in the delays.
Mutate ==
  /\ now + UsersDelay <= Horizon
  /\ timers' = timers \o Republished
  /\ UNCHANGED <<now, feed>>

ListTimers ==
  \/ Await /\ UNCHANGED <<usersVars, emitted, stack, lastCall, timers, feed>>
  \/ UsersDelivered /\ UNCHANGED <<now, usersVars, emitted, stack, lastCall>>
  \/ BusReturn /\ UNCHANGED <<now, usersVars, lastCall, timers, feed>>

ListNext ==
  /\ ListOthers
  /\ \/ \E d \in ListData : AddUser(d) /\ Mutate
     \/ \E id \in ListIds, ch \in ListChanges : UpdateUser(id, ch) /\ Mutate
     \/ \E id \in ListIds : DeleteUser(id) /\ Mutate
     \/ \E s \in Subscribers :
          GetUsers(s) /\ UNCHANGED <<now, usersVars, emitted, stack, lastCall>>
     \/ ListTimers

\* Timers that are due fire, time passes, and a call in progress returns.
SpecList == Init /\ [][ListNext]_vars /\ WF_vars(ListOthers /\ ListTimers)


(* UsersService called by features that may or may not subscribe to the stream *)
(* a mutation returns, with listeners on the bus. The calls are made in the    *)
(* first instant; the streams deliver afterwards.                              *)
CallTypes == {USER_UPDATED, USER_DELETED}

CallsOthers == UNCHANGED <<stateVars, settingsVars, authVars, feed, viewVars, comp>>

\* A mutation, with what it leaves in the delays.
Call(subscribed) ==
  /\ now = Clock0
  /\ CanSchedule(ResultDelay)
  /\ timers' = timers \o Republished \o Returned(subscribed)
  /\ UNCHANGED <<now, busSubs, busType, busLog, regAt>>

CallsNext ==
  /\ CallsOthers
  /\ \/ \E d \in ListData, subscribed \in BOOLEAN : AddUser(d) /\ Call(subscribed)
     \/ \E id \in ListIds, ch \in ListChanges, subscribed \in BOOLEAN :
          UpdateUser(id, ch) /\ Call(subscribed)
     \/ \E id \in ListIds, subscribed \in BOOLEAN : DeleteUser(id) /\ Call(subscribed)
     \/ \E s \in Subscribers, type \in CallTypes :
          /\ NextBusSub(s)
          /\ BusSubscribe(s, type)
          /\ UNCHANGED <<now, usersVars, lastCall, timers>>
     \/ BusSkip /\ UNCHANGED <<now, usersVars, lastCall, timers>>
     \/ BusDeliver /\ UNCHANGED <<now, usersVars, lastCall, timers>>
     \/ BusReturn /\ UNCHANGED <<now, usersVars, lastCall, timers>>
     \/ Await /\ UNCHANGED <<usersVars, busVars, lastCall, timers>>
     \/ ResultDelivered /\ UNCHANGED <<now, usersVars, busVars, lastCall>>

SpecCalls == Init /\ [][CallsNext]_vars


(* The analytics dashboard: it is initialised and shows its data, and its     *)
(* template formats values and picks colours.                                 *)
DashOthers ==
  UNCHANGED <<stateVars, busVars, usersVars, settingsVars, authVars, feed, button, clickedOut,
              comp>>

DashTimers ==
  \/ Await /\ UNCHANGED <<lastCall, timers, dash>>
  \/ AnalyticsDelivered /\ UNCHANGED now

DashNext ==
  /\ DashOthers
  /\ \/ DashNgOnInit /\ UNCHANGED now
     \/ \E value \in Values, metricLabel \in Labels :
          CallFormatValue(value, metricLabel) /\ UNCHANGED <<now, timers, dash>>
     \/ \E trend \in Trends : CallGetTrendColor(trend) /\ UNCHANGED <<now, timers, dash>>
     \/ DashTimers

\* The timer of delay(600) fires when its time has come.
SpecDash == Init /\ [][DashNext]_vars /\ WF_vars(DashOthers /\ DashTimers)

(* A button whose inputs the parent binds, and which is clicked. *)
ButtonOthers ==
  UNCHANGED <<now, stateVars, busVars, usersVars, settingsVars, authVars, feed, timers, dash,
              comp>>

ButtonNext ==
  /\ ButtonOthers
  /\ \/ \E disabled \in BOOLEAN, loading \in BOOLEAN :
          SetInputs(disabled, loading) /\ UNCHANGED lastCall
     \/ OnClick(ClickEvent)

SpecButton == Init /\ [][ButtonNext]_vars

(* The users list: the page is opened, rows are clicked, users are added,     *)
(* edited and deleted through the two modals and the delete button. A modal   *)
(* that is shown covers the list; its form and buttons are there while it is  *)
(* shown.                                                                     *)
CompForms == {EmptyForm} \cup ListData
CompIds == {<<1>>, <<2>>}

\* The rows of the list the user works with.
Rows == {i \in 1..Len(comp.users) : comp.users[i].id \in CompIds}

OnPage == ~comp.showAddModal /\ ~comp.showEditModal

CompOthers ==
  UNCHANGED <<busSubs, busType, busLog, regAt, settingsVars, authVars, viewVars>>

CompTimers ==
  \/ Await /\ UNCHANGED <<stateVars, usersVars, emitted, stack, lastCall, timers, feed, comp>>
  \/ CompUsersDelivered /\ UNCHANGED <<now, stateVars, usersVars, emitted, stack, lastCall>>
  \/ CompResultDelivered /\ UNCHANGED <<now, stateVars, usersVars, emitted, stack, lastCall>>
  \/ BusReturn /\ UNCHANGED <<now, stateVars, usersVars, lastCall, timers, feed, comp>>

\* What a handler that calls no service leaves alone.
CompOnly == UNCHANGED <<now, stateVars, usersVars, emitted, stack, lastCall, timers, feed>>

CompNext ==
  /\ CompOthers
  /\ \/ CompNgOnInit /\ UNCHANGED <<now, stateVars, usersVars, emitted, stack, lastCall>>
     \/ \E i \in Rows :
          OnPage /\ OnUserClick(comp.users[i]) /\ UNCHANGED <<now, usersVars, timers, feed>>
     \/ OnPage /\ OnAddUser /\ CompOnly
     \/ comp.showAddModal /\ OnCloseAddModal /\ CompOnly
     \/ \E form \in CompForms : EnterNewUser(form) /\ CompOnly
     \/ comp.showAddModal /\ OnSubmitNewUser /\ UNCHANGED <<now, stateVars>>
     \/ \E i \in Rows : OnPage /\ OnEditUser(comp.users[i]) /\ CompOnly
     \/ comp.showEditModal /\ OnCloseEditModal /\ CompOnly
     \/ \E change \in ListChanges : EnterEdit(change) /\ CompOnly
     \/ comp.showEditModal /\ OnSubmitEditUser /\ UNCHANGED <<now, stateVars>>
     \/ \E i \in Rows, confirmed \in BOOLEAN :
          OnPage /\ OnDeleteUser(comp.users[i], confirmed) /\ UNCHANGED <<now, stateVars>>
     \/ CompTimers

\* Timers that are due fire, time passes, and a call in progress returns.
SpecComp == Init /\ [][CompNext]_vars /\ WF_vars(CompOthers /\ CompTimers)

----------------------------------------------------------------------------
(* Claims *)

\* What an observer of a cell must have received: the value the cell held when it
\* subscribed, then the values set from then until it unsubscribed (or until now).
Expected(s) ==
  LET c == subAt[s].cell
      h == setHistory[c]
      from == subAt[s].from
      to == IF subAt[s].to = -1 THEN Len(h) ELSE subAt[s].to
  IN <<IF from = 0 THEN CellInit[c] ELSE h[from]>> \o SubSeq(h, from + 1, to)

\* C1: an observer of a StateService cell has received exactly the value that was
\* current when it subscribed, followed by every value set afterwards, one per
\* set call and in call order.
C1_ReplayThenEverySet ==
  \A s \in Subscribers : ~Fresh(s) => stateLog[s] = Expected(s)

\* C1 witness: an observer that joined after a set call and saw two later ones.
C1_Witness ==
  \E s \in Subscribers :
    /\ ~Fresh(s) /\ subAt[s].from >= 1
    /\ Len(stateLog[s]) >= 3
    /\ stateLog[s][2] # stateLog[s][3]

\* How often observer s received the event of the i-th emit call.
Count(s, i) == Cardinality({j \in 1..Len(busLog[s]) : busLog[s][j].seq = i})
\* The emit calls that have not returned yet.
Running == {stack[k].seq : k \in 1..Len(stack)}

\* C2: once an emit call has returned, every observer that subscribed to its type
\* before the call and is still subscribed has received its event exactly once;
\* an observer that subscribed after the call never receives the event.
C2_DeliveredOnceNoReplay ==
  \A s \in Subscribers : \A i \in 1..Len(emitted) :
    /\ Count(s, i) <= 1
    /\ (regAt[s] = -1 \/ regAt[s] >= i) => Count(s, i) = 0
    /\ (/\ i \notin Running
        /\ regAt[s] # -1 /\ regAt[s] < i
        /\ s \in Range(busSubs)
        /\ emitted[i].type = busType[s]) => Count(s, i) = 1

\* C2 witness: an event an earlier observer has and a later observer of the same
\* type has not.
C2_Witness ==
  /\ Idle
  /\ \E s, r \in Subscribers : \E i \in 1..Len(emitted) :
       /\ regAt[s] # -1 /\ regAt[s] < i /\ regAt[r] >= i
       /\ busType[s] = emitted[i].type /\ busType[r] = emitted[i].type
       /\ {s, r} \subseteq Range(busSubs)
       /\ Count(s, i) = 1 /\ Count(r, i) = 0

\* C3: every observer receives events in the order of the emit calls, also when
\* emit is called inside a callback.
C3_EmissionOrder ==
  \A s \in Subscribers : \A j, k \in 1..Len(busLog[s]) :
    j < k => busLog[s][j].seq < busLog[s][k].seq

\* C4: an observer of on(T) receives only events of type T, each with the type
\* and payload its emit call was given.
C4_OnlyOwnType ==
  \A s \in Subscribers : \A j \in 1..Len(busLog[s]) :
    LET got == busLog[s][j]
    IN /\ got.event.type = busType[s]
       /\ got.event.type = emitted[got.seq].type
       /\ got.event.payload = emitted[got.seq].payload

\* C4 witness: an observer that received an event and was subscribed while an
\* event of another type was emitted.
C4_Witness ==
  /\ Idle
  /\ \E s \in Subscribers : \E i \in 1..Len(emitted) :
       /\ regAt[s] # -1 /\ regAt[s] < i
       /\ s \in Range(busSubs)
       /\ emitted[i].type # busType[s]
       /\ Len(busLog[s]) >= 1

\* The last call was op with an identifier no record of the collection had.
UnknownId(op) == lastCall.op = op /\ lastCall.arg \notin Ids(lastCall.pre.users)

\* C5: deleteUser with an identifier that matches no user leaves the collection
\* as it was, publishes and emits nothing, and its result differs from that of
\* a successful delete.
C5_DeleteUnknownIsNoOp ==
  UnknownId("deleteUser") =>
    /\ users = lastCall.pre.users
    /\ Len(published) = lastCall.pre.published
    /\ Len(emitted) = lastCall.pre.emitted
    /\ lastCall.result # TRUE

\* C6: updateUser with an identifier that matches no user results in undefined,
\* leaves the collection as it was, publishes no snapshot and emits no event.
C6_UpdateUnknownNotFound ==
  UnknownId("updateUser") =>
    /\ lastCall.result = Undefined
    /\ users = lastCall.pre.users
    /\ Len(published) = lastCall.pre.published
    /\ Len(emitted) = lastCall.pre.emitted

\* C6 witness: an update of an unknown identifier after an earlier mutation.
C6_Witness ==
  /\ UnknownId("updateUser")
  /\ lastCall.pre.published >= 1
  /\ lastCall.pre.users # MOCK_USERS

\* C7: addUser adds exactly one record, and its identifier is none of those the
\* collection held before the call.
C7_AddUserFreshId ==
  lastCall.op = "addUser" =>
    /\ Len(users) = Len(lastCall.pre.users) + 1
    /\ users[Len(users)].id \notin Ids(lastCall.pre.users)

\* C8: updateSettings merges: a field the partial names has the partial's value,
\* every other field has the value it had, in memory and in the stored record.
C8_UpdateMerges ==
  lastCall.op = "updateSettings" =>
    LET partial == lastCall.arg
        old == lastCall.pre.settings
        stored == JsonParse(storage.text)
    IN /\ storage.present /\ stored.ok
       /\ DOMAIN settings = DOMAIN old \cup DOMAIN partial
       /\ DOMAIN stored.value = DOMAIN old \cup DOMAIN partial
       /\ \A k \in DOMAIN old \cup DOMAIN partial :
            IF k \in DOMAIN partial
            THEN settings[k] = partial[k] /\ stored.value[k] = partial[k]
            ELSE settings[k] = old[k] /\ stored.value[k] = old[k]

\* C8 witness: darkMode alone was set while language held a value other than
\* the default, which is still there.
C8_Witness ==
  /\ lastCall.op = "updateSettings"
  /\ DOMAIN lastCall.arg = {"darkMode"}
  /\ lastCall.arg.darkMode = JBool(TRUE)
  /\ "language" \in DOMAIN settings
  /\ settings.language = JStr("de")
  /\ lastCall.pre.settings.darkMode = JBool(FALSE)

\* The last call constructed the service over a stored text that does not parse.
MalformedAtConstruct ==
  /\ lastCall.op = "construct"
  /\ Truthy(lastCall.arg)
  /\ ~JsonParse(lastCall.arg.text).ok

\* C9: constructing the service over a malformed stored value does not fail and
\* the service starts with the default settings.
C9_MalformedGivesDefaults ==
  MalformedAtConstruct => svc = "ok" /\ settings = DEFAULT_SETTINGS

\* C10: the stored record equals the record in memory: after updateSettings the
\* text under the key parses to the settings in memory, a service constructed
\* later loads exactly them, and with nothing stored it loads the defaults.
C10_StoredEqualsInMemory ==
  /\ svc = "ok" => /\ LoadSettings(storage) = [thrown |-> FALSE, value |-> settings]
                   /\ ~Truthy(storage) => settings = DEFAULT_SETTINGS
  /\ lastCall.op = "updateSettings" =>
       storage.present /\ JsonParse(storage.text) = Parsed(settings)
  /\ (lastCall.op = "construct" /\ lastCall.pre.svc = "ok") =>
       svc = "ok" /\ settings = lastCall.pre.settings

\* C10 witness: the service constructed again after updates, holding the record
\* the updates left, which is not the default one.
C10_Witness ==
  /\ lastCall.op = "construct" /\ lastCall.pre.svc = "ok"
  /\ Len(emitted) >= 2
  /\ settings # DEFAULT_SETTINGS
  /\ settings = emitted[Len(emitted)].payload

\* The USER_SELECTED emit calls so far, in call order.
Selections == SelectSeq(emitted, LAMBDA e : e.type = USER_SELECTED)

\* C11: selectUser sets the shared id before it emits: while a USER_SELECTED
\* emit is delivering, getSelectedUserId() is the id of the event's payload;
\* every selection is a set of the cell, and an observer that joins
\* selectedUserId$ after a selection first receives the id of that selection.
C11_StateAgreesAtDelivery ==
  /\ \A k \in 1..Len(stack) :
       stack[k].event.type = USER_SELECTED =>
         GetSelectedUserId = stack[k].event.payload.id
  /\ Len(Selections) = Len(setHistory["selectedUserId"])
  /\ \A k \in 1..Len(Selections) :
       Selections[k].payload.id = setHistory["selectedUserId"][k]
  /\ \A s \in Subscribers :
       (subAt[s].cell = "selectedUserId" /\ subAt[s].from >= 1) =>
         stateLog[s][1] = Selections[subAt[s].from].payload.id

\* C11 witness: a listener received two selections of different users, and an
\* observer that joined selectedUserId$ while the second was being delivered
\* received the second user's id.
C11_Witness ==
  \E s, r \in Subscribers :
    /\ Len(busLog[s]) = 2
    /\ busLog[s][1].event.type = USER_SELECTED
    /\ busLog[s][2].event.type = USER_SELECTED
    /\ busLog[s][1].event.payload.id # busLog[s][2].event.payload.id
    /\ ~Idle
    /\ subAt[r].cell = "selectedUserId" /\ subAt[r].from = 2
    /\ stateLog[r] = <<busLog[s][2].event.payload.id>>

\* C12: when a subscribed login delivers its response the service is authenticated,
\* currentUser is the response's user, and storage holds the response's token under
\* auth_token and the user, as JSON, under current_user; calling and subscribing
\* login changes none of them before that.
C12_LoginDelivers ==
  /\ lastCall.op = "loginDelivered" =>
       /\ auth.isAuthenticated
       /\ auth.currentUser = lastCall.result.user
       /\ authStore.auth_token = Item(lastCall.result.token)
       /\ authStore.current_user.present
       /\ JsonParse(authStore.current_user.text) = Parsed(lastCall.result.user)
  /\ lastCall.op = "login" =>
       /\ auth = lastCall.pre.auth
       /\ authStore = lastCall.pre.store

C12_Witness ==
  /\ lastCall.op = "loginDelivered"
  /\ lastCall.pre.auth = NoAuth
  /\ lastCall.pre.store = EmptyStore
  /\ lastCall.result.token # MockToken(Clock0)
  /\ now = Clock0 + TimeStep + LoginDelay

\* C13: when a subscribed logout completes after a completed login, the service
\* is unauthenticated, currentUser is null and storage holds neither auth_token
\* nor current_user.
C13_LogoutClears ==
  (lastCall.op = "logoutDelivered" /\ "login" \in Range(authLog)) =>
    /\ ~auth.isAuthenticated
    /\ auth.currentUser = Null
    /\ ~authStore.auth_token.present
    /\ ~authStore.current_user.present

C13_Witness ==
  /\ lastCall.op = "logoutDelivered"
  /\ authLog = <<"login", "logout">>
  /\ lastCall.pre.auth = Signed(MOCK_USER)
  /\ lastCall.pre.store.auth_token.present
  /\ lastCall.pre.store.current_user.present

\* C19: ngOnInit on an unauthenticated service starts one login, and the service
\* is authenticated at some later time; on an authenticated service it starts none.
C19_AutoLogin ==
  /\ [](lastCall.op = "ngOnInit" =>
          IF lastCall.pre.auth.isAuthenticated
          THEN app = "skip" /\ timers = lastCall.pre.timers
          ELSE /\ app = "login"
               /\ Len(timers) = Len(lastCall.pre.timers) + 1
               /\ timers[Len(timers)].kind = "login"
               /\ timers[Len(timers)].due <= now + LoginDelay)
  /\ (lastCall.op = "ngOnInit" /\ app = "login") ~> auth.isAuthenticated

C19_Witness ==
  /\ app = "login"
  /\ lastCall.op = "loginDelivered"
  /\ lastCall.pre.timers # <<>>
  /\ authLog = <<"logout", "login">>
  /\ ~lastCall.pre.auth.isAuthenticated
  /\ auth.isAuthenticated

\* The snapshots subscriber s is due: the one current when it subscribed, then
\* every one published since.
Snapshots(s) ==
  IF feed[s].from = -1 THEN <<>>
  ELSE <<IF feed[s].from = 0 THEN MOCK_USERS ELSE published[feed[s].from]>>
       \o SubSeq(published, feed[s].from + 1, Len(published))

Waiting(s) ==
  Cardinality({i \in 1..Len(timers) : timers[i].kind = "users" /\ timers[i].value.sub = s})

\* C14: a getUsers() subscriber receives the snapshot current when it subscribed and
\* then every snapshot published later, once each and in publication order, each
\* after the delay; when nothing is under way any more, the last one it received is
\* the service's collection, and that comes to pass.
C14_SnapshotsInOrder ==
  /\ [](\A s \in Subscribers : feed[s].from # -1 =>
          /\ Len(feed[s].got) + Waiting(s) = Len(Snapshots(s))
          /\ feed[s].got = SubSeq(Snapshots(s), 1, Len(feed[s].got))
          /\ Waiting(s) = 0 => feed[s].got[Len(feed[s].got)] = users
          /\ now < Clock0 + UsersDelay => feed[s].got = <<>>)
  /\ <>[](\A s \in Subscribers : Waiting(s) = 0 /\ feed[s].got = Snapshots(s))

C14_Witness ==
  \E s, r \in Subscribers :
    /\ feed[s].from = 0 /\ feed[r].from = 1
    /\ Len(published) = 2
    /\ published[1] # published[2] /\ published[1] # MOCK_USERS
    /\ feed[s].got = <<MOCK_USERS, published[1], published[2]>>
    /\ feed[r].got = <<published[1], published[2]>>
    /\ users = published[2]

\* The last call was a mutation that finds its user: addUser, or updateUser or
\* deleteUser with an id of the collection.
Mutated ==
  \/ lastCall.op = "addUser"
  \/ lastCall.op = "updateUser" /\ FindIndex(lastCall.pre.users, lastCall.arg) # 0
  \/ lastCall.op = "deleteUser" /\ lastCall.arg \in Ids(lastCall.pre.users)

\* The event such a call emits.
Announced ==
  IF lastCall.op = "deleteUser"
  THEN [type |-> USER_DELETED, payload |-> [id |-> lastCall.arg]]
  ELSE [type |-> USER_UPDATED, payload |-> lastCall.result]

\* C15: addUser, and updateUser and deleteUser on a present id, publish one new
\* collection and emit one event at call time, subscribed or not: USER_UPDATED with
\* the added or updated record, which the published collection holds, or
\* USER_DELETED with the id, which the published collection no longer holds; a
\* listener of that type gets the event once, with the collection published already.
C15_PublishThenEmit ==
  Mutated =>
    /\ Len(published) = lastCall.pre.published + 1
    /\ published[Len(published)] = users
    /\ Len(emitted) = lastCall.pre.emitted + 1
    /\ emitted[Len(emitted)] = Announced
    /\ IF lastCall.op = "deleteUser"
       THEN lastCall.arg \notin Ids(users)
       ELSE lastCall.result \in Range(users)
    /\ \A k \in 1..Len(stack) : stack[k].seq = Len(emitted)
    /\ \A s \in Subscribers :
         (Idle /\ regAt[s] # -1 /\ regAt[s] < Len(emitted) /\ busType[s] = Announced.type) =>
           Cardinality({i \in 1..Len(busLog[s]) : busLog[s][i].seq = Len(emitted)}) = 1

C15_Witness ==
  /\ Idle
  /\ lastCall.op = "deleteUser"
  /\ lastCall.arg \in Ids(lastCall.pre.users)
  /\ timers = <<>>
  /\ Len(emitted) = 2
  /\ emitted[1].type = USER_UPDATED
  /\ \E s \in Subscribers :
       /\ busType[s] = USER_DELETED
       /\ Len(busLog[s]) = 1
       /\ busLog[s][1].event.payload = [id |-> lastCall.arg]

\* The values as they are written with their digits in groups of three, and plainly.
DigitGrouped(value) ==
  CASE
      value = Num(FALSE, 0, <<>>) -> <<"0">>
    [] value = Num(FALSE, 50, <<>>) -> <<"5", "0">>
    [] value = Num(FALSE, 999, <<>>) -> <<"9", "9", "9">>
    [] value = Num(FALSE, 1000, <<>>) -> <<"1", ",", "0", "0", "0">>
    [] value = Num(FALSE, 89500, <<>>) -> <<"8", "9", ",", "5", "0", "0">>
    [] value = Num(FALSE, 1234567, <<>>) -> <<"1", ",", "2", "3", "4", ",", "5", "6", "7">>
    [] value = Num(TRUE, 1000, <<>>) -> <<"-", "1", ",", "0", "0", "0">>
    [] value = Num(FALSE, 3, <<2, 4>>) -> <<"3", ".", "2", "4">>
    [] value = Num(FALSE, 12450, <<5>>) -> <<"1", "2", ",", "4", "5", "0", ".", "5">>

Plain(value) ==
  CASE
      value = Num(FALSE, 0, <<>>) -> <<"0">>
    [] value = Num(FALSE, 50, <<>>) -> <<"5", "0">>
    [] value = Num(FALSE, 999, <<>>) -> <<"9", "9", "9">>
    [] value = Num(FALSE, 1000, <<>>) -> <<"1", "0", "0", "0">>
    [] value = Num(FALSE, 89500, <<>>) -> <<"8", "9", "5", "0", "0">>
    [] value = Num(FALSE, 1234567, <<>>) -> <<"1", "2", "3", "4", "5", "6", "7">>
    [] value = Num(TRUE, 1000, <<>>) -> <<"-", "1", "0", "0", "0">>
    [] value = Num(FALSE, 3, <<2, 4>>) -> <<"3", ".", "2", "4">>
    [] value = Num(FALSE, 12450, <<5>>) -> <<"1", "2", "4", "5", "0", ".", "5">>

EndsWith(text, part) ==
  Len(text) >= Len(part) /\ SubSeq(text, Len(text) - Len(part) + 1, Len(text)) = part

\* C16, as first stated: a label containing "Revenue" gives "$" and the grouped
\* value, a label ending in "Rate" gives the value and "%", every other label gives
\* the grouped value.
C16_FormatByLabel ==
  lastCall.op = "formatValue" =>
    LET value == lastCall.arg.value
        label == lastCall.arg.label
    IN /\ Includes(label, Revenue) => lastCall.result = <<"$">> \o DigitGrouped(value)
       /\ EndsWith(label, Rate) => lastCall.result = Plain(value) \o <<"%">>
       /\ (~Includes(label, Revenue) /\ ~EndsWith(label, Rate)) =>
            lastCall.result = DigitGrouped(value)

\* C16, amended: a label containing "Revenue" gives "$" and the grouped value
\* (1000 gives "$1,000"); a label containing "Rate" and not "Revenue" gives the
\* value, not grouped, and "%" (50 gives "50%"); a label containing neither gives
\* the grouped value.
C16_FormatByContainedWord ==
  lastCall.op = "formatValue" =>
    LET value == lastCall.arg.value
        label == lastCall.arg.label
    IN /\ Includes(label, Revenue) => lastCall.result = <<"$">> \o DigitGrouped(value)
       /\ (~Includes(label, Revenue) /\ Includes(label, Rate)) =>
            lastCall.result = Plain(value) \o <<"%">>
       /\ (~Includes(label, Revenue) /\ ~Includes(label, Rate)) =>
            lastCall.result = DigitGrouped(value)
       /\ (value = Whole(1000) /\ label = Revenue) =>
            lastCall.result = <<"$", "1", ",", "0", "0", "0">>
       /\ (value = Whole(50) /\ label = <<"C", "o", "n", "v", "e", "r", "s", "i", "o", "n", " ", "R", "a", "t", "e">>) =>
            lastCall.result = <<"5", "0", "%">>

C16_Witness ==
  /\ lastCall.op = "formatValue"
  /\ lastCall.arg.label = <<"R", "e", "v", "e", "n", "u", "e", " ", "G", "r", "o", "w", "t", "h", " ", "R", "a", "t", "e">>
  /\ lastCall.arg.value = Whole(1234567)
  /\ lastCall.result = <<"$", "1", ",", "2", "3", "4", ",", "5", "6", "7">>

AnalyticsPending == \E i \in 1..Len(timers) : timers[i].kind = "analytics"

\* C17: once the dashboard is initialised, loading is true and there is no data
\* until the service delivers, which it does not before its delay; the delivery
\* sets analyticsData to the data delivered and loading to false; loading = false
\* always comes with data; and loading does become false.
C17_LoadingUntilData ==
  /\ [](dash.init =>
          /\ AnalyticsPending => (dash.loading /\ dash.analyticsData = Null)
          /\ now < Clock0 + AnalyticsDelay => AnalyticsPending
          /\ ~dash.loading => dash.analyticsData # Null)
  /\ [](lastCall.op = "analyticsDelivered" =>
          /\ lastCall.pre.loading
          /\ dash.analyticsData = lastCall.result
          /\ ~dash.loading)
  /\ dash.init ~> ~dash.loading

C17_Witness ==
  /\ dash.init
  /\ ~dash.loading
  /\ dash.analyticsData = AnalyticsData
  /\ lastCall.op = "analyticsDelivered"
  /\ now = Clock0 + AnalyticsDelay

\* C18: a click makes the clicked output emit its event, once, exactly when the
\* button is neither disabled nor loading; otherwise the click emits nothing.
C18_ClickedIffEnabled ==
  /\ Len(clickedOut) <= button.clicks
  /\ lastCall.op = "onClick" =>
       clickedOut = IF ~lastCall.pre.button.disabled /\ ~lastCall.pre.button.loading
                    THEN Append(lastCall.pre.clickedOut, lastCall.arg)
                    ELSE lastCall.pre.clickedOut

C18_Witness ==
  /\ lastCall.op = "onClick"
  /\ lastCall.pre.button.loading /\ ~lastCall.pre.button.disabled
  /\ button.clicks = 3
  /\ clickedOut = <<[click |-> 2]>>

\* C20: getTrendColor gives '#10B981' for 'up', '#EF4444' for 'down' and '#6B7280'
\* for anything else.
C20_TrendColor ==
  lastCall.op = "getTrendColor" =>
    lastCall.result = IF lastCall.arg = "up" THEN "#10B981"
                      ELSE IF lastCall.arg = "down" THEN "#EF4444"
                      ELSE "#6B7280"

C20_Witness ==
  /\ lastCall.op = "getTrendColor"
  /\ lastCall.arg = "UP"
  /\ lastCall.result = "#6B7280"

\* The last call was op with an identifier some record of the collection had.
KnownId(op) == lastCall.op = op /\ lastCall.arg \in Ids(lastCall.pre.users)

\* C21: updateUser on a present id keeps the length and the order of the collection;
\* the record at the matched position is the old one with the fields of data laid
\* over it, and every other record is as it was.
C21_UpdateReplacesOne ==
  KnownId("updateUser") =>
    LET old == lastCall.pre.users
        i == FindIndex(old, lastCall.arg)
        data == lastCall.data
    IN /\ Len(users) = Len(old)
       /\ \A k \in 1..Len(old) : k # i => users[k] = old[k]
       /\ DOMAIN users[i] = DOMAIN old[i] \cup DOMAIN data
       /\ \A f \in DOMAIN users[i] :
            users[i][f] = IF f \in DOMAIN data THEN data[f] ELSE old[i][f]

C21_Witness ==
  /\ KnownId("updateUser")
  /\ FindIndex(lastCall.pre.users, lastCall.arg) = 2
  /\ lastCall.data = [status |-> "inactive", role |-> "Manager"]
  /\ lastCall.pre.users # MOCK_USERS
  /\ users[2].name = MOCK_USERS[2].name
  /\ users[2].role = "Manager"

\* C22: deleteUser on a present id leaves exactly one record fewer, none of them
\* with that id, and the others as they were and in their order.
C22_DeleteRemovesOne ==
  KnownId("deleteUser") =>
    LET old == lastCall.pre.users
        i == FindIndex(old, lastCall.arg)
    IN /\ Len(users) = Len(old) - 1
       /\ lastCall.arg \notin Ids(users)
       /\ users = SubSeq(old, 1, i - 1) \o SubSeq(old, i + 1, Len(old))

\* C28: updateUser leaves every identifier as it was: the updated record has the
\* id it was found by, and the collection has the identifiers it had.
C28_UpdateKeepsIds ==
  KnownId("updateUser") =>
    /\ users[FindIndex(lastCall.pre.users, lastCall.arg)].id = lastCall.arg
    /\ Ids(users) = Ids(lastCall.pre.users)
    /\ Len(users) = Len(lastCall.pre.users)

\* C23: in every reachable state of AuthService, isAuthenticated is true exactly
\* when currentUser is not null.
C23_AuthenticatedIffUser == auth.isAuthenticated <=> auth.currentUser # Null
\* C24: a login that was in flight when a logout completed does not re-authenticate
\* the service: when the step after the logout's delivery is the delivery of such a
\* login, the service is still unauthenticated.
C24_LogoutHolds ==
  [][(lastCall.op = "logoutDelivered" /\ lastCall'.op = "loginDelivered")
       => (~auth'.isAuthenticated /\ auth'.currentUser = Null
           /\ authStore' = EmptyStore)]_vars
\* The storage holds a token and a current_user that JSON.parse rejects.
Unparsable ==
  /\ Truthy(authStore.auth_token) /\ Truthy(authStore.current_user)
  /\ ~JsonParseValue(authStore.current_user.text).ok

\* C25: an AuthService constructed over a token and an unparsable current_user is
\* unauthenticated with currentUser null, and the stale entries are eventually
\* removed from the storage.
C25_StaleEntriesRemoved ==
  (lastCall = NoCall /\ Unparsable) => (auth = NoAuth /\ <>(authStore = EmptyStore))
\* C26: the selected-user id of StateService is null or the id of a user in the
\* collection, whatever was selected, added, updated and deleted through the
\* users list, once every call has returned and every callback has run.
C26_SelectionInCollection ==
  (Idle /\ timers = <<>>) => (GetSelectedUserId = NoId \/ GetSelectedUserId \in Ids(users))

\* C27: the users list holds at most one subscription to the stream of the
\* collection, however often loadUsers ran, and no snapshot is applied twice.
C27_OneSubscription ==
  /\ Cardinality(Live) <= 1
  /\ \A s \in Live, r \in Live :
       s # r => \A k \in 1..Len(feed[s].got), j \in 1..Len(feed[r].got) :
                  feed[s].from + k # feed[r].from + j
\* C29: no operation of UsersService changes an array that was published before
\* or the initial mock array: each array passed to usersSubject.next is a newly
\* built one, and every earlier one still has the elements it was published with.
C29_SnapshotsKept ==
  /\ heap[1] = MOCK_USERS
  /\ Len(heap) = Len(published) + 1
  /\ \A k \in 1..Len(published) : heap[k + 1] = published[k]

C29_Witness ==
  /\ Len(published) = 2
  /\ lastCall.op = "updateUser"
  /\ lastCall.pre.users = published[1]
  /\ published[1] # MOCK_USERS
  /\ published[2] # published[1]
  /\ heap = <<MOCK_USERS, published[1], users>>
====
